---- MODULE Spec2Model ----
(***************************************************************************)
(* Model of the Hasura event / action dispatch engine of                   *)
(* packages/hasura/src/hasura.module.ts: the handler tables built by       *)
(* HasuraModule.onModuleInit and the two dispatch closures handleEvent     *)
(* and handleAction it installs on the handler services.                   *)
(***************************************************************************)
EXTENDS Integers, Sequences, FiniteSets, TLC

(***************************************************************************)
(* Bounds of the model.                                                    *)
(***************************************************************************)
\* Largest number of handler methods (event and action handlers together)
\* the metadata discovery returns.
MaxDiscovered == 2
\* Number of dispatch calls that may be in flight at the same time.
MaxCalls == 2
\* Largest number of event handler methods the discovery returns in the
\* runs that look at the order of a fan-out.
MaxInterleaved == 3

(***************************************************************************)
(* JavaScript values.  Every value carries its runtime type in field t, so *)
(* that typeof, truthiness, optional chaining and template-string          *)
(* conversion are computed the way the language computes them.             *)
(***************************************************************************)
Undefined == [t |-> "undefined"]
Null == [t |-> "null"]
Str(s) == [t |-> "string", v |-> s]
Obj(fields) == [t |-> "object", f |-> fields]
Arr(elems) == [t |-> "object", a |-> elems]

\* typeof v  (typeof null is "object")
TypeOf(v) == IF v.t = "null" THEN "object" ELSE v.t

\* ToBoolean(v), as used by &&, ||, ! and ?:
Truthy(v) ==
  CASE v.t = "string" -> v.v # ""
    [] v.t = "object" -> TRUE
    [] OTHER -> FALSE

\* v?.k : undefined when v is null or undefined or has no property k
Get(v, k) ==
  IF v.t = "object" /\ k \in DOMAIN v.f THEN v.f[k] ELSE Undefined

\* `${v}`
TemplateStr(v) ==
  CASE v.t = "string" -> v.v
    [] v.t = "undefined" -> "undefined"
    [] v.t = "null" -> "null"
    [] OTHER -> "[object Object]"

\* One element of Array.prototype.join: undefined and null give "".
JoinElem(v) == IF v.t \in {"undefined", "null"} THEN "" ELSE TemplateStr(v)

\* `${keys}` : Array.prototype.toString, i.e. join(",")
RECURSIVE JoinKeys(_)
JoinKeys(keys) ==
  IF Len(keys) = 0 THEN ""
  ELSE IF Len(keys) = 1 THEN JoinElem(keys[1])
  ELSE JoinElem(keys[1]) \o "," \o JoinKeys(Tail(keys))

\* keys.includes(k)
Includes(keys, k) == \E i \in DOMAIN keys : keys[i] = k


(***************************************************************************)
(* What the metadata discovery can return.                                 *)
(***************************************************************************)
Classes == {"A", "B"}

\* HasuraEventHandlerConfig values: trigger only, table only (with and
\* without schema), both, and neither.
TableOf(schema, name) == Obj([schema |-> schema, name |-> name])
TableNoSchema(name) == Obj([name |-> name])
Config(triggerName, table) == [triggerName |-> triggerName, table |-> table]
Configs ==
  { Config(Str("t1"), Undefined),
    Config(Str("public-a"), Undefined),
    Config(Undefined, TableNoSchema(Str("a"))),
    Config(Undefined, TableOf(Str("s1"), Str("a"))),
    Config(Str("t1"), TableNoSchema(Str("a"))),
    Config(Undefined, Undefined) }

ActionNames == {"act1", "act2"}

\* One element of providerMethodsWithMetaAtKey's result.
EventMetas == [parentClass : Classes, meta : Configs]
ActionMetas == [parentClass : Classes, meta : ActionNames]

SeqsOfLen(S, n) == [1..n -> S]
SeqsUpTo(S, n) == UNION { SeqsOfLen(S, k) : k \in 0..n }

(***************************************************************************)
(* lodash groupBy by parentClass.name, Object.keys, map and flatten.       *)
(***************************************************************************)
\* Each discovered method with its position in the discovery result, which
\* identifies the method (discoveredMethod).
Indexed(metas) ==
  [i \in 1..Len(metas) |->
     [idx |-> i, parentClass |-> metas[i].parentClass, meta |-> metas[i].meta]]

\* Object.keys(groupBy(..)): the class names in order of first appearance.
RECURSIVE GroupKeys(_, _)
GroupKeys(items, seen) ==
  IF Len(items) = 0 THEN << >>
  ELSE IF Head(items).parentClass \in seen THEN GroupKeys(Tail(items), seen)
  ELSE << Head(items).parentClass >>
         \o GroupKeys(Tail(items), seen \cup {Head(items).parentClass})

\* grouped[x]: the items of class x, in discovery order.
Group(items, x) == SelectSeq(items, LAMBDA it : it.parentClass = x)

\* flatten(Object.keys(grouped).map(x => grouped[x].map(..)))
RECURSIVE FlattenGroups(_, _)
FlattenGroups(items, classKeys) ==
  IF Len(classKeys) = 0 THEN << >>
  ELSE Group(items, Head(classKeys)) \o FlattenGroups(items, Tail(classKeys))

\* The discovered methods left in discovery order, ungrouped (not what the
\* code does).
GroupedFlat_DiscoveryOrder(metas) == Indexed(metas)

GroupedFlat(metas) ==
  FlattenGroups(Indexed(metas), GroupKeys(Indexed(metas), {}))

(***************************************************************************)
(* configureHasuraEventHandlers: validation and routing key of a binding.  *)
(***************************************************************************)
\* A validation that looks for null only and lets an absent table and
\* trigger name through (a bug).
InvalidConfig_NullOnly(config) ==
  config.table.t = "null" /\ config.triggerName.t = "null"

\* !config.table && !config.triggerName
InvalidConfig(config) == ~Truthy(config.table) /\ ~Truthy(config.triggerName)

\* The routing key with the schema taken as written (a bug).
RoutingKey_SchemaNotDefaulted(config) ==
  IF Truthy(config.triggerName) THEN config.triggerName
  ELSE Str(TemplateStr(Get(config.table, "schema"))
           \o "-" \o TemplateStr(Get(config.table, "name")))

\* config.triggerName || `${schema ? schema : 'public'}-${name}`
RoutingKey(config) ==
  IF Truthy(config.triggerName) THEN config.triggerName
  ELSE Str((IF Truthy(Get(config.table, "schema"))
              THEN TemplateStr(Get(config.table, "schema"))
              ELSE "public")
           \o "-" \o TemplateStr(Get(config.table, "name")))

\* The bound invoker externalContextCreator.create returns for a method.
EventHandlerRef(i) == [kind |-> "event", idx |-> i]
ActionHandlerRef(i) == [kind |-> "action", idx |-> i]

\* The eventHandlers list: one {key, handler} per discovered method.
BuildEventHandlers(metas) ==
  LET flat == GroupedFlat(metas) IN
  [i \in 1..Len(flat) |->
     [key |-> RoutingKey(flat[i].meta), handler |-> EventHandlerRef(flat[i].idx)]]

(***************************************************************************)
(* configureHasuraActionHandlers: new Map(actionHandlers).                 *)
(***************************************************************************)
\* A table in which the first handler written under a name stays (not
\* what Map does).
MapSet_FirstWins(map, k, v) ==
  IF \E i \in DOMAIN map : map[i][1] = k THEN map ELSE Append(map, << k, v >>)

\* Map.prototype.set: an existing key keeps its place and takes the new
\* value; a new key is appended.
MapSet(map, k, v) ==
  IF \E i \in DOMAIN map : map[i][1] = k
    THEN [i \in DOMAIN map |-> IF map[i][1] = k THEN << k, v >> ELSE map[i]]
    ELSE Append(map, << k, v >>)

\* new Map(entries): the entries are set in order.
RECURSIVE MapOf(_)
MapOf(entries) ==
  IF Len(entries) = 0 THEN << >>
  ELSE LET n == Len(entries)
       IN MapSet(MapOf(SubSeq(entries, 1, n - 1)), entries[n][1], entries[n][2])

BuildActionHandlerMap(metas) ==
  LET flat == GroupedFlat(metas) IN
  MapOf([i \in 1..Len(flat) |-> << flat[i].meta, ActionHandlerRef(flat[i].idx) >>])

\* A lookup that falls back to the first entry on a miss (a bug).
MapGet_FirstOnMiss(map, name) ==
  IF \E i \in DOMAIN map : map[i][1] = name
    THEN LET i == CHOOSE j \in DOMAIN map : map[j][1] = name IN map[i][2]
    ELSE IF Len(map) > 0 THEN map[1][2] ELSE Undefined

\* actionHandlerMap.get(name): exact match on the name, else undefined
MapGet(map, name) ==
  IF \E i \in DOMAIN map : map[i][1] = name
    THEN LET i == CHOOSE j \in DOMAIN map : map[j][1] = name IN map[i][2]
    ELSE Undefined

(***************************************************************************)
(* Incoming payloads.                                                      *)
(***************************************************************************)
\* isHasuraEvent(value)
isHasuraEvent(value) ==
  /\ Truthy(Get(value, "id"))
  /\ TypeOf(Get(value, "table")) = "object"
  /\ TypeOf(Get(value, "trigger")) = "object"

\* isHasuraScheduledEventPayload(value)
isHasuraScheduledEventPayload(value) ==
  /\ Truthy(Get(value, "id"))
  /\ Truthy(Get(value, "name"))
  /\ Truthy(Get(value, "scheduled_time"))
  /\ TypeOf(Get(value, "payload")) = "object"

\* The candidate keys of a table event without its trigger name (a bug).
TableEventKeys_TableKeyOnly(evt) ==
  << Str(TemplateStr(Get(Get(evt, "table"), "schema")) \o "-"
         \o TemplateStr(Get(Get(evt, "table"), "name"))) >>

\* [evt.trigger?.name, `${evt?.table?.schema}-${evt?.table?.name}`]
TableEventKeys(evt) ==
  << Get(Get(evt, "trigger"), "name"),
     Str(TemplateStr(Get(Get(evt, "table"), "schema")) \o "-"
         \o TemplateStr(Get(Get(evt, "table"), "name"))) >>

\* [evt.name]
ScheduledEventKeys(evt) == << Get(evt, "name") >>

\* Classification that takes every payload of unknown shape for a scheduled
\* event (a bug).
CandidateKeys_ScheduledByDefault(evt) ==
  IF isHasuraEvent(evt) THEN Arr(TableEventKeys(evt))
  ELSE Arr(ScheduledEventKeys(evt))

\* Classification that never looks for the scheduled-event shape and keys
\* every payload with an id as a table event (a bug).
CandidateKeys_AlwaysTable(evt) ==
  IF Truthy(Get(evt, "id")) THEN Arr(TableEventKeys(evt)) ELSE Null

\* Classification that tests the scheduled-event shape first (a bug).
CandidateKeys_ScheduledFirst(evt) ==
  IF isHasuraScheduledEventPayload(evt) THEN Arr(ScheduledEventKeys(evt))
  ELSE IF isHasuraEvent(evt) THEN Arr(TableEventKeys(evt))
  ELSE Null

\* const keys = isHasuraEvent(evt) ? .. : isHasuraScheduledEventPayload(evt) ? .. : null
CandidateKeys(evt) ==
  IF isHasuraEvent(evt) THEN Arr(TableEventKeys(evt))
  ELSE IF isHasuraScheduledEventPayload(evt) THEN Arr(ScheduledEventKeys(evt))
  ELSE Null

\* The handler list unfiltered (a bug).
MatchingHandlers_Unfiltered(handlers, keys) == handlers

\* eventHandlers.filter((x) => keys.includes(x.key))
MatchingHandlers(handlers, keys) ==
  SelectSeq(handlers, LAMBDA x : Includes(keys, x.key))

\* The errors the dispatch closures throw themselves.
NotHasuraEventError == [t |-> "error", name |-> "Error", message |-> "Not a Hasura Event"]
BadRequestException(message) ==
  [t |-> "error", name |-> "BadRequestException", message |-> message]
EventNotFoundMessage(keys) == "Handler not found for " \o JoinKeys(keys)
ActionNotFoundMessage(name) == "Handler not found for action: " \o TemplateStr(name)

\* What a bound handler gives back: its own result when it returns, its
\* own error when it raises.
ResultOf(handler) == [t |-> "result", by |-> handler]
ErrorOf(handler) == [t |-> "error", name |-> "HandlerError", by |-> handler]


(***************************************************************************)
(* The payloads a caller may hand to handleEvent and handleAction.         *)
(***************************************************************************)
TriggerOf(name) == Obj([name |-> name])
SomeObject == Obj([k |-> Str("v")])

EventTriggers == { TriggerOf(Str("t1")), TriggerOf(Str("public-a")), TriggerOf(Str("t2")) }
EventTables ==
  { TableOf(Str("public"), Str("a")), TableNoSchema(Str("a")),
    TableOf(Str("s1"), Str("a")), TableOf(Str("public"), Str("b")) }
EventNames == { Str("t1"), Str("public-a"), Str("t2") }

TableEvents ==
  { Obj([id |-> Str("e1"), table |-> tb, trigger |-> tr]) :
      tb \in EventTables, tr \in EventTriggers }

ScheduledEvents ==
  { Obj([id |-> Str("e1"), name |-> n, scheduled_time |-> Str("now"),
         payload |-> SomeObject]) : n \in EventNames }

\* Payloads with both shapes at once.
DualShapeEvents ==
  { Obj([id |-> Str("e1"), table |-> TableOf(Str("public"), Str("b")),
         trigger |-> TriggerOf(Str("t2")), name |-> n,
         scheduled_time |-> Str("now"), payload |-> SomeObject]) :
      n \in { Str("t1") } }

\* typeof null is "object": accepted by isHasuraEvent.
NullFieldEvents == { Obj([id |-> Str("e1"), table |-> Null, trigger |-> Null]) }

\* Payloads with neither shape.
OtherPayloads ==
  { Obj([id |-> Str("e1")]),
    Obj([table |-> TableNoSchema(Str("a")), trigger |-> TriggerOf(Str("t1"))]),
    Obj([id |-> Str(""), table |-> TableNoSchema(Str("a")),
         trigger |-> TriggerOf(Str("t1"))]),
    Obj([id |-> Str("e1"), table |-> Str("a"), trigger |-> TriggerOf(Str("t1"))]),
    Obj([id |-> Str("e1"), table |-> TableNoSchema(Str("a"))]),
    Obj([id |-> Str("e1"), name |-> Str("t1"), scheduled_time |-> Str("now"),
         payload |-> Str("p")]),
    Obj([id |-> Str("e1"), name |-> Str("t1"), payload |-> SomeObject]),
    Obj([name |-> Str("t1"), scheduled_time |-> Str("now"), payload |-> SomeObject]) }

EventPayloads ==
  TableEvents \cup ScheduledEvents \cup DualShapeEvents \cup NullFieldEvents
    \cup OtherPayloads

ActionOf(name, input) == Obj([action |-> Obj([name |-> name]), input |-> input])
ActionPayloads ==
  { ActionOf(Str(n), Str(i)) : n \in ActionNames \cup {"act3", "act"}, i \in {"i1", "i2"} }
HeaderValues == { Obj([secret |-> Str("s")]) }

(***************************************************************************)
(* State.                                                                  *)
(***************************************************************************)
VARIABLES
  eventHandlerMeta,     \* result of providerMethodsWithMetaAtKey(HASURA_EVENT_HANDLER)
  actionHandlerNames,   \* result of providerMethodsWithMetaAtKey(HASURA_ACTION_HANDLER)
  phase,                \* position of onModuleInit
  eventHandlers,        \* the eventHandlers list captured by handleEvent
  actionHandlerMap,     \* the Map captured by handleAction
  handleEventSet,       \* eventHandlerService.handleEvent has been assigned
  handleActionSet,      \* actionHandlerService.handleAction has been assigned
  calls                 \* the dispatch calls in flight, by call slot

vars ==
  << eventHandlerMeta, actionHandlerNames, phase, eventHandlers, actionHandlerMap,
     handleEventSet, handleActionSet, calls >>

tables == << eventHandlerMeta, actionHandlerNames, phase, eventHandlers,
             actionHandlerMap, handleEventSet, handleActionSet >>

CallIds == 1..MaxCalls

\* A call: what it was called with (args), how its caller sees it (status,
\* outcome), the candidate keys it computed, the handler invocations it
\* launched (tasks) and the bookkeeping of Promise.all (values, remaining).
Call(kind, args, status, outcome, keys, tasks, values) ==
  [kind |-> kind, args |-> args, status |-> status, outcome |-> outcome,
   keys |-> keys, tasks |-> tasks, values |-> values, remaining |-> Len(values)]

\* A call slot with no call in it.
IdleCall == Call("none", << >>, "idle", Undefined, Null, << >>, << >>)

\* The discovery results of a run: at most MaxDiscovered handler methods.
Discoveries ==
  UNION { SeqsOfLen(EventMetas, n[1]) \X SeqsOfLen(ActionMetas, n[2]) :
            n \in { m \in (0..MaxDiscovered) \X (0..MaxDiscovered) :
                      m[1] + m[2] <= MaxDiscovered } }

Init ==
  /\ \E d \in Discoveries :
       /\ eventHandlerMeta = d[1]
       /\ actionHandlerNames = d[2]
  /\ phase = "constructed"
  /\ eventHandlers = << >>
  /\ actionHandlerMap = << >>
  /\ handleEventSet = FALSE
  /\ handleActionSet = FALSE
  /\ calls = [c \in CallIds |-> IdleCall]


(***************************************************************************)
(* onModuleInit.                                                           *)
(***************************************************************************)
\* configureHasuraEventHandlers: a binding with neither table nor
\* triggerName makes it throw before handleEvent is assigned, and
\* onModuleInit ends there.  The module provides EventHandlerService
\* itself, so the lookup of the service instance succeeds; the log lines
\* and warnings change no state.
ConfigureEventHandlers ==
  /\ phase = "constructed"
  /\ IF \E i \in DOMAIN eventHandlerMeta : InvalidConfig(eventHandlerMeta[i].meta)
       THEN /\ phase' = "failed"
            /\ UNCHANGED << eventHandlers, handleEventSet >>
       ELSE /\ eventHandlers' = BuildEventHandlers(eventHandlerMeta)
            /\ handleEventSet' = TRUE
            /\ phase' = "eventsConfigured"
  /\ UNCHANGED << eventHandlerMeta, actionHandlerNames, actionHandlerMap,
                  handleActionSet, calls >>

\* configureHasuraActionHandlers
ConfigureActionHandlers ==
  /\ phase = "eventsConfigured"
  /\ actionHandlerMap' = BuildActionHandlerMap(actionHandlerNames)
  /\ handleActionSet' = TRUE
  /\ phase' = "ready"
  /\ UNCHANGED << eventHandlerMeta, actionHandlerNames, eventHandlers,
                  handleEventSet, calls >>

(***************************************************************************)
(* handleEvent and handleAction.                                           *)
(***************************************************************************)
\* An array slot Promise.all has not filled yet.
Hole == [t |-> "hole"]

\* handlers.map((x) => x.handler(...args)): every bound invoker is an async
\* function, so each call starts the handler and gives back a pending
\* promise; none throws into the map.  A task records the handler, what
\* it was called with, how its promise stands, what it settled with and
\* its place in the order in which the call's handlers settled.
Launch(handlers, args) ==
  [i \in 1..Len(handlers) |->
     [handler |-> handlers[i].handler, args |-> args, state |-> "running",
      settled |-> Undefined, order |-> 0]]

\* The call handleEvent(evt) makes of the handler list.
HandleEventCall(handlerList, evt) ==
  LET keys == CandidateKeys(evt) IN
  IF ~Truthy(keys)
    THEN Call("event", << evt >>, "threw", NotHasuraEventError, keys, << >>, << >>)
    ELSE LET handlers == MatchingHandlers(handlerList, keys.a) IN
         IF Len(handlers) > 0
           THEN Call("event", << evt >>, "pending", Undefined, keys,
                     Launch(handlers, << evt >>),
                     [i \in 1..Len(handlers) |-> Hole])
           ELSE Call("event", << evt >>, "threw",
                     BadRequestException(EventNotFoundMessage(keys.a)),
                     keys, << >>, << >>)

\* The call handleAction(action, headers) makes of the action map.
HandleActionCall(map, action, headers) ==
  LET name == Get(Get(action, "action"), "name")
      handler == MapGet(map, name.v)
  IN
  IF handler = Undefined
    THEN Call("action", << action, headers >>, "rejected",
              BadRequestException(ActionNotFoundMessage(name)), Null, << >>, << >>)
    ELSE Call("action", << action, headers >>, "pending", Undefined, Null,
              Launch(<< [handler |-> handler] >>,
                     << Get(action, "input"), action, headers >>),
              << >>)


(***************************************************************************)
(* Settling: what a handler's promise does to the call that launched it.   *)
(***************************************************************************)
\* An aggregation that stores each value at the first free index, i.e. in
\* completion order (a bug).
PromiseAllFulfilElement_CompletionOrder(call, i, v) ==
  LET free == CHOOSE k \in DOMAIN call.values :
                /\ call.values[k] = [t |-> "hole"]
                /\ \A m \in DOMAIN call.values : m < k => call.values[m] # [t |-> "hole"]
      values == [call.values EXCEPT ![free] = v]
      remaining == call.remaining - 1
  IN
  IF remaining = 0 /\ call.status = "pending"
    THEN [call EXCEPT !.values = values, !.remaining = remaining,
                      !.status = "fulfilled", !.outcome = Arr(values)]
    ELSE [call EXCEPT !.values = values, !.remaining = remaining]

\* Promise.all, one element fulfilled: the value goes to the element's own
\* index; when no element remains, the promise fulfils with the array.
PromiseAllFulfilElement(call, i, v) ==
  LET values == [call.values EXCEPT ![i] = v]
      remaining == call.remaining - 1
  IN
  IF remaining = 0 /\ call.status = "pending"
    THEN [call EXCEPT !.values = values, !.remaining = remaining,
                      !.status = "fulfilled", !.outcome = Arr(values)]
    ELSE [call EXCEPT !.values = values, !.remaining = remaining]

\* A rejection that cancels the handlers still running (a bug).
PromiseAllRejectElement_CancelSiblings(call, i, reason) ==
  IF call.status = "pending"
    THEN [call EXCEPT !.status = "rejected", !.outcome = reason,
                      !.tasks = [j \in DOMAIN call.tasks |->
                                   IF call.tasks[j].state = "running"
                                     THEN [call.tasks[j] EXCEPT !.state = "cancelled"]
                                     ELSE call.tasks[j]]]
    ELSE call

\* A rejection that is held back until every handler has settled, as
\* Promise.allSettled followed by a rethrow would do (not what the code does).
PromiseAllRejectElement_AfterAllSettled(call, i, reason) ==
  IF /\ call.status = "pending"
     /\ \A j \in DOMAIN call.tasks : call.tasks[j].state # "running"
    THEN LET first == CHOOSE j \in DOMAIN call.tasks :
                        /\ call.tasks[j].state = "rejected"
                        /\ \A k \in DOMAIN call.tasks :
                             call.tasks[k].state = "rejected" =>
                               call.tasks[j].order <= call.tasks[k].order
         IN [call EXCEPT !.status = "rejected", !.outcome = call.tasks[first].settled]
    ELSE call

\* Promise.all, one element rejected: the promise rejects with that reason
\* at once, unless it is settled already; nothing is done to the others.
PromiseAllRejectElement(call, i, reason) ==
  IF call.status = "pending"
    THEN [call EXCEPT !.status = "rejected", !.outcome = reason]
    ELSE call

\* A return that wraps the handler's result in a list (a bug).
AsyncReturnFulfil_Wrapped(call, v) ==
  [call EXCEPT !.status = "fulfilled", !.outcome = Arr(<< v >>)]

\* async handleAction: `return handler(..)` settles the call's promise the
\* way the handler's promise settles.
AsyncReturnFulfil(call, v) == [call EXCEPT !.status = "fulfilled", !.outcome = v]
AsyncReturnReject(call, reason) == [call EXCEPT !.status = "rejected", !.outcome = reason]

SettledCount(call) ==
  Cardinality({ j \in DOMAIN call.tasks : call.tasks[j].state # "running" })

TaskFulfilled(call, i, v) ==
  [call EXCEPT !.tasks[i].state = "fulfilled", !.tasks[i].settled = v,
               !.tasks[i].order = SettledCount(call) + 1]
TaskRejected(call, i, reason) ==
  [call EXCEPT !.tasks[i].state = "rejected", !.tasks[i].settled = reason,
               !.tasks[i].order = SettledCount(call) + 1]

(***************************************************************************)
(* Actions of a call slot c.                                               *)
(***************************************************************************)
\* A dispatch that takes the handlers it matched off the handler list, as
\* a one-shot subscription would (a bug).
HandleEvent_ConsumesMatched(c, payloads) ==
  /\ phase = "ready"
  /\ handleEventSet
  /\ calls[c].status = "idle"
  /\ \E evt \in payloads :
       LET call == HandleEventCall(eventHandlers, evt) IN
       /\ calls' = [calls EXCEPT ![c] = call]
       /\ eventHandlers' =
            IF Truthy(call.keys)
              THEN SelectSeq(eventHandlers, LAMBDA x : ~Includes(call.keys.a, x.key))
              ELSE eventHandlers
  /\ UNCHANGED << eventHandlerMeta, actionHandlerNames, phase, actionHandlerMap,
                  handleEventSet, handleActionSet >>

\* A dispatch that waits until no other call is pending, as a dispatcher
\* holding a lock over the handler list would (a bug).
HandleEvent_Serialized(c, payloads) ==
  /\ phase = "ready"
  /\ handleEventSet
  /\ calls[c].status = "idle"
  /\ \A d \in DOMAIN calls : calls[d].status # "pending"
  /\ \E evt \in payloads :
       calls' = [calls EXCEPT ![c] = HandleEventCall(eventHandlers, evt)]
  /\ UNCHANGED << eventHandlerMeta, actionHandlerNames, phase, eventHandlers,
                  actionHandlerMap, handleEventSet, handleActionSet >>

\* eventHandlerService.handleEvent(evt).  Callers come once onModuleInit
\* has completed: the application takes no request before that.
HandleEvent(c, payloads) ==
  /\ phase = "ready"
  /\ handleEventSet
  /\ calls[c].status = "idle"
  /\ \E evt \in payloads :
       calls' = [calls EXCEPT ![c] = HandleEventCall(eventHandlers, evt)]
  /\ UNCHANGED tables

\* actionHandlerService.handleAction(action, headers)
HandleAction(c, payloads) ==
  /\ phase = "ready"
  /\ handleActionSet
  /\ calls[c].status = "idle"
  /\ \E action \in payloads, headers \in HeaderValues :
       calls' = [calls EXCEPT ![c] = HandleActionCall(actionHandlerMap, action, headers)]
  /\ UNCHANGED tables

\* The i-th handler launched by call c returns.
HandlerReturns(c, i) ==
  /\ i \in DOMAIN calls[c].tasks
  /\ calls[c].tasks[i].state = "running"
  /\ LET v == ResultOf(calls[c].tasks[i].handler)
         call == TaskFulfilled(calls[c], i, v)
     IN calls' = [calls EXCEPT ![c] =
                    IF call.kind = "event" THEN PromiseAllFulfilElement(call, i, v)
                    ELSE AsyncReturnFulfil(call, v)]
  /\ UNCHANGED tables

\* The i-th handler launched by call c raises.
HandlerRaises(c, i) ==
  /\ i \in DOMAIN calls[c].tasks
  /\ calls[c].tasks[i].state = "running"
  /\ LET reason == ErrorOf(calls[c].tasks[i].handler)
         call == TaskRejected(calls[c], i, reason)
     IN calls' = [calls EXCEPT ![c] =
                    IF call.kind = "event" THEN PromiseAllRejectElement(call, i, reason)
                    ELSE AsyncReturnReject(call, reason)]
  /\ UNCHANGED tables

\* The caller has the outcome and no handler of the call is running any
\* more: nothing of the call is left.
Return(c) ==
  /\ calls[c].status \in {"threw", "fulfilled", "rejected"}
  /\ \A i \in DOMAIN calls[c].tasks : calls[c].tasks[i].state # "running"
  /\ calls' = [calls EXCEPT ![c] = IdleCall]
  /\ UNCHANGED tables

TaskIds == 1..MaxDiscovered

Dispatch(c, events, actions) ==
  \/ HandleEvent(c, events)
  \/ HandleAction(c, actions)
  \/ \E i \in TaskIds : HandlerReturns(c, i)
  \/ \E i \in TaskIds : HandlerRaises(c, i)
  \/ Return(c)

OnModuleInit == ConfigureEventHandlers \/ ConfigureActionHandlers

\* One dispatch call at a time, over every discovery and payload.
Next == OnModuleInit \/ Dispatch(1, EventPayloads, ActionPayloads)

Spec == Init /\ [][Next]_vars

\* A handler that has been launched goes on running on the event loop
\* whatever has become of its call, until it returns or raises.
HandlerSettles(c, i) == HandlerReturns(c, i) \/ HandlerRaises(c, i)

FairSpec == Spec /\ \A i \in TaskIds : WF_vars(HandlerSettles(1, i))

(***************************************************************************)
(* Several dispatch calls in flight at once, over the discoveries and      *)
(* payloads of one routing key.                                            *)
(***************************************************************************)
ConcurrentEventMetas ==
  [parentClass : {"A"},
   meta : { Config(Str("public-a"), Undefined),
            Config(Undefined, TableNoSchema(Str("a"))) }]
ConcurrentActionMetas == [parentClass : {"A"}, meta : {"act1"}]

\* Every discovery of at most one handler per binding and action name.
ConcurrentDiscoveries ==
  SeqsUpTo(ConcurrentEventMetas, Cardinality(ConcurrentEventMetas))
    \X SeqsUpTo(ConcurrentActionMetas, Cardinality(ConcurrentActionMetas))

ConcurrentEventPayloads ==
  { Obj([id |-> Str("e1"), table |-> TableOf(Str("public"), Str("a")),
         trigger |-> TriggerOf(Str("t2"))]),
    Obj([id |-> Str("e1"), table |-> TableOf(Str("public"), Str("b")),
         trigger |-> TriggerOf(Str("t2"))]),
    Obj([id |-> Str("e1")]) }
ConcurrentActionPayloads == { ActionOf(Str(n), Str("i1")) : n \in {"act1", "act3"} }

ConcurrentInit ==
  /\ \E d \in ConcurrentDiscoveries :
       /\ eventHandlerMeta = d[1]
       /\ actionHandlerNames = d[2]
  /\ phase = "constructed"
  /\ eventHandlers = << >>
  /\ actionHandlerMap = << >>
  /\ handleEventSet = FALSE
  /\ handleActionSet = FALSE
  /\ calls = [c \in CallIds |-> IdleCall]

ConcurrentNext ==
  \/ OnModuleInit
  \/ \E c \in CallIds : Dispatch(c, ConcurrentEventPayloads, ConcurrentActionPayloads)

ConcurrentSpec == ConcurrentInit /\ [][ConcurrentNext]_vars

(***************************************************************************)
(* One dispatch call at a time over longer discoveries of event handlers   *)
(* of two classes and two routing keys: the order of a fan-out.            *)
(***************************************************************************)
InterleavedEventMetas ==
  [parentClass : Classes,
   meta : { Config(Str("t1"), Undefined),
            Config(Undefined, TableNoSchema(Str("a"))) }]

InterleavedDiscoveries == SeqsUpTo(InterleavedEventMetas, MaxInterleaved)

\* Events that match both keys, one key and none.
InterleavedEventPayloads ==
  { Obj([id |-> Str("e1"), table |-> TableOf(Str("public"), Str("a")),
         trigger |-> TriggerOf(Str("t1"))]),
    Obj([id |-> Str("e1"), table |-> TableOf(Str("public"), Str("b")),
         trigger |-> TriggerOf(Str("t1"))]),
    Obj([id |-> Str("e1"), table |-> TableOf(Str("public"), Str("b")),
         trigger |-> TriggerOf(Str("t2"))]) }

InterleavedInit ==
  /\ eventHandlerMeta \in InterleavedDiscoveries
  /\ actionHandlerNames = << >>
  /\ phase = "constructed"
  /\ eventHandlers = << >>
  /\ actionHandlerMap = << >>
  /\ handleEventSet = FALSE
  /\ handleActionSet = FALSE
  /\ calls = [c \in CallIds |-> IdleCall]

InterleavedNext ==
  \/ OnModuleInit
  \/ HandleEvent(1, InterleavedEventPayloads)
  \/ \E i \in 1..MaxInterleaved : HandlerReturns(1, i)
  \/ \E i \in 1..MaxInterleaved : HandlerRaises(1, i)
  \/ Return(1)

InterleavedSpec == InterleavedInit /\ [][InterleavedNext]_vars


(***************************************************************************)
(* Vocabulary of the properties.                                           *)
(***************************************************************************)
IsEventCall(c) == calls[c].kind = "event"
IsActionCall(c) == calls[c].kind = "action"
Evt(c) == calls[c].args[1]

\* How many times call c has invoked handler h.
Invocations(c, h) ==
  Cardinality({ j \in DOMAIN calls[c].tasks : calls[c].tasks[j].handler = h })

\* The handlers call c has invoked, in launch order.
Invoked(c) == [j \in DOMAIN calls[c].tasks |-> calls[c].tasks[j].handler]

TriggerOnly(config) == Truthy(config.triggerName) /\ config.table = Undefined
TableOnly(config) == config.triggerName = Undefined /\ config.table.t = "object"

\* The schema of a binding's table, "public" when the binding names none.
BindingSchema(config) ==
  IF "schema" \in DOMAIN config.table.f THEN config.table.f.schema ELSE Str("public")

\* A binding other than that of discovered method i has a routing key among
\* the candidate keys of call c.
OtherKeyMatches(c, i) ==
  \E k \in DOMAIN eventHandlers :
    /\ eventHandlers[k].handler # EventHandlerRef(i)
    /\ Includes(calls[c].keys.a, eventHandlers[k].key)

\* A call has failed: handleEvent threw, or the promise it gave is rejected.
Failed(c) == calls[c].status \in {"threw", "rejected"}

\* The positions in the handler table whose key is a candidate key of c.
MatchedIndices(c) ==
  { k \in DOMAIN eventHandlers : Includes(calls[c].keys.a, eventHandlers[k].key) }

\* The i-th smallest element of a set of numbers.
NthOf(S, i) == CHOOSE k \in S : Cardinality({ m \in S : m < k }) = i - 1

AllSucceeded(c) ==
  \A j \in DOMAIN calls[c].tasks : calls[c].tasks[j].state = "fulfilled"

Classified(evt) == isHasuraEvent(evt) \/ isHasuraScheduledEventPayload(evt)

IsScheduledOnly(evt) ==
  /\ isHasuraScheduledEventPayload(evt)
  /\ Get(evt, "table") = Undefined
  /\ Get(evt, "trigger") = Undefined

HandlersKeyed(key) ==
  LET bound == SelectSeq(eventHandlers, LAMBDA x : x.key = key)
  IN [i \in 1..Len(bound) |-> bound[i].handler]

ActionName(c) == Get(Get(calls[c].args[1], "action"), "name")

\* The action handlers discovered under a name.
RegisteredFor(name) ==
  { ActionHandlerRef(i) : i \in { j \in DOMAIN actionHandlerNames :
                                    Str(actionHandlerNames[j].meta) = name } }

Running(c, i) == i \in DOMAIN calls[c].tasks /\ calls[c].tasks[i].state = "running"

Raised(c, i) == i \in DOMAIN calls[c].tasks /\ calls[c].tasks[i].state = "rejected"

Returned(c, i) == i \in DOMAIN calls[c].tasks /\ calls[c].tasks[i].state = "fulfilled"

Settled(c, i) == Raised(c, i) \/ Returned(c, i)

\* Handler i of call c is the first of the call's handlers to have raised.
FirstRaised(c, i) ==
  /\ Raised(c, i)
  /\ \A j \in DOMAIN calls[c].tasks :
       Raised(c, j) => calls[c].tasks[i].order <= calls[c].tasks[j].order

\* The dispatch of c has failed with the error of the handler that raised.
FailsWithRaisedError(c) ==
  (\E i \in DOMAIN calls[c].tasks : Raised(c, i)) =>
    /\ calls[c].status = "rejected"
    /\ \E i \in DOMAIN calls[c].tasks :
         /\ FirstRaised(c, i)
         /\ calls[c].outcome = ErrorOf(calls[c].tasks[i].handler)

\* Every binding matched by c has been launched, and every launched handler
\* is running or has run to its end.
AllLaunched(c) ==
  /\ Len(calls[c].tasks) = Cardinality(MatchedIndices(c))
  /\ \A i \in DOMAIN calls[c].tasks :
       /\ Running(c, i) \/ Settled(c, i)
       /\ Returned(c, i) => calls[c].tasks[i].settled = ResultOf(calls[c].tasks[i].handler)

\* A step leaves a running handler running or takes it to its own end.
NotCancelled(c) ==
  \A i \in DOMAIN calls[c].tasks :
    Running(c, i) =>
      /\ i \in DOMAIN calls'[c].tasks
      /\ calls'[c].tasks[i].handler = calls[c].tasks[i].handler
      /\ calls'[c].tasks[i].state \in {"running", "fulfilled", "rejected"}

(***************************************************************************)
(* C1.  A binding registered with only triggerName = T is invoked exactly  *)
(* once by handleEvent on a table event whose trigger.name is T, and is    *)
(* the only handler invoked when no other binding's routing key is among   *)
(* the event's candidate keys.                                             *)
(***************************************************************************)
C1_TriggerOnlyBinding ==
  \A c \in CallIds :
    (IsEventCall(c) /\ isHasuraEvent(Evt(c))) =>
      \A i \in DOMAIN eventHandlerMeta :
        (/\ TriggerOnly(eventHandlerMeta[i].meta)
         /\ Get(Get(Evt(c), "trigger"), "name") = eventHandlerMeta[i].meta.triggerName)
        => /\ Invocations(c, EventHandlerRef(i)) = 1
           /\ (~OtherKeyMatches(c, i) => Invoked(c) = << EventHandlerRef(i) >>)

\* A trigger-only binding has been invoked, alone, by an event with its name.
C1_Witness ==
  \E c \in CallIds, i \in DOMAIN eventHandlerMeta :
    /\ IsEventCall(c) /\ isHasuraEvent(Evt(c))
    /\ TriggerOnly(eventHandlerMeta[i].meta)
    /\ Get(Get(Evt(c), "trigger"), "name") = eventHandlerMeta[i].meta.triggerName
    /\ Len(eventHandlerMeta) = 2
    /\ Invoked(c) = << EventHandlerRef(i) >>
    /\ calls[c].status = "fulfilled"

(***************************************************************************)
(* C2.  A binding registered with only table = {schema, name}, an absent   *)
(* schema taken as "public", is invoked exactly once by handleEvent on a   *)
(* table event with that schema and name, and is the only handler invoked  *)
(* when no other binding's routing key is among the candidate keys.        *)
(***************************************************************************)
C2_TableOnlyBinding ==
  \A c \in CallIds :
    (IsEventCall(c) /\ isHasuraEvent(Evt(c))) =>
      \A i \in DOMAIN eventHandlerMeta :
        (/\ TableOnly(eventHandlerMeta[i].meta)
         /\ Get(Get(Evt(c), "table"), "schema") = BindingSchema(eventHandlerMeta[i].meta)
         /\ Get(Get(Evt(c), "table"), "name") = Get(eventHandlerMeta[i].meta.table, "name"))
        => /\ Invocations(c, EventHandlerRef(i)) = 1
           /\ (~OtherKeyMatches(c, i) => Invoked(c) = << EventHandlerRef(i) >>)

\* A table-only binding without schema has been invoked, alone, by an event
\* on the table of that name in schema "public".
C2_Witness ==
  \E c \in CallIds, i \in DOMAIN eventHandlerMeta :
    /\ IsEventCall(c) /\ isHasuraEvent(Evt(c))
    /\ TableOnly(eventHandlerMeta[i].meta)
    /\ "schema" \notin DOMAIN eventHandlerMeta[i].meta.table.f
    /\ Get(Get(Evt(c), "table"), "schema") = Str("public")
    /\ Get(Get(Evt(c), "table"), "name") = Get(eventHandlerMeta[i].meta.table, "name")
    /\ Len(eventHandlerMeta) = 2
    /\ Invoked(c) = << EventHandlerRef(i) >>
    /\ calls[c].status = "fulfilled"

(***************************************************************************)
(* C3.  Fan-out: when two or more bindings have a routing key among the    *)
(* candidate keys of an event, one handleEvent call invokes each of them,  *)
(* in handler-table order; and when all have succeeded the call's result   *)
(* is the sequence of their results, the i-th entry being the result of    *)
(* the i-th matched binding, in whatever order the handlers completed.     *)
(***************************************************************************)
C3_FanOutInTableOrder ==
  \A c \in CallIds :
    (IsEventCall(c) /\ Truthy(calls[c].keys) /\ Cardinality(MatchedIndices(c)) >= 2) =>
      LET M == MatchedIndices(c)
          n == Cardinality(M)
      IN /\ Len(calls[c].tasks) = n
         /\ \A i \in 1..n : calls[c].tasks[i].handler = eventHandlers[NthOf(M, i)].handler
         /\ AllSucceeded(c) =>
              /\ calls[c].status = "fulfilled"
              /\ calls[c].outcome =
                   Arr([i \in 1..n |-> ResultOf(eventHandlers[NthOf(M, i)].handler)])

\* A fan-out to two handlers has succeeded, the second handler having
\* completed before the first.
C3_Witness ==
  \E c \in CallIds :
    /\ IsEventCall(c)
    /\ Len(calls[c].tasks) = 2
    /\ calls[c].tasks[1].handler # calls[c].tasks[2].handler
    /\ calls[c].tasks[2].order = 1
    /\ calls[c].tasks[1].order = 2
    /\ calls[c].status = "fulfilled"

(***************************************************************************)
(* C4.  When a payload is classified as a table event or as a scheduled    *)
(* event and no binding has a routing key among its candidate keys,        *)
(* handleEvent fails with the bad-request error whose message names the    *)
(* candidate keys, and no handler is invoked.                              *)
(***************************************************************************)
C4_HandlerNotFound ==
  \A c \in CallIds :
    (IsEventCall(c) /\ Classified(Evt(c)) /\ MatchedIndices(c) = {}) =>
      /\ Failed(c)
      /\ calls[c].outcome.name = "BadRequestException"
      /\ calls[c].outcome.message = "Handler not found for " \o JoinKeys(calls[c].keys.a)
      /\ Invoked(c) = << >>

\* A table event for trigger t2 on public.b has found no handler in a
\* table that holds handlers, and the error names both keys tried.
C4_Witness ==
  \E c \in CallIds :
    /\ IsEventCall(c) /\ isHasuraEvent(Evt(c))
    /\ Len(eventHandlers) = 2
    /\ Failed(c)
    /\ calls[c].outcome.message = "Handler not found for t2,public-b"
    /\ Invoked(c) = << >>

(***************************************************************************)
(* C5.  When a payload has neither the table-event shape nor the           *)
(* scheduled-event shape, handleEvent fails with 'Not a Hasura Event',     *)
(* not with handler-not-found, and no handler is invoked, whatever the     *)
(* handler table holds.                                                    *)
(***************************************************************************)
C5_NotAHasuraEvent ==
  \A c \in CallIds :
    (IsEventCall(c) /\ ~Classified(Evt(c))) =>
      /\ Failed(c)
      /\ calls[c].outcome.name = "Error"
      /\ calls[c].outcome.message = "Not a Hasura Event"
      /\ Invoked(c) = << >>

\* A payload with a name that is a registered routing key, but without
\* scheduled_time, has been refused as not a Hasura event.
C5_Witness ==
  \E c \in CallIds :
    /\ IsEventCall(c) /\ ~Classified(Evt(c))
    /\ \E k \in DOMAIN eventHandlers : eventHandlers[k].key = Get(Evt(c), "name")
    /\ Failed(c)
    /\ calls[c].outcome.message = "Not a Hasura Event"

(***************************************************************************)
(* C6.  A payload with id, name, scheduled_time and an object-typed        *)
(* payload, and with no table and no trigger, is routed by name only: the  *)
(* handlers invoked are exactly the bindings whose routing key is the      *)
(* name, and the name is the only candidate key.                           *)
(***************************************************************************)
C6_ScheduledRoutedByName ==
  \A c \in CallIds :
    (IsEventCall(c) /\ IsScheduledOnly(Evt(c))) =>
      /\ calls[c].keys = Arr(<< Get(Evt(c), "name") >>)
      /\ Invoked(c) = HandlersKeyed(Get(Evt(c), "name"))

\* A scheduled event has invoked the one binding keyed by its name and not
\* the other binding of the table.
C6_Witness ==
  \E c \in CallIds :
    /\ IsEventCall(c) /\ IsScheduledOnly(Evt(c))
    /\ Len(eventHandlers) = 2
    /\ Len(Invoked(c)) = 1
    /\ calls[c].status = "fulfilled"

(***************************************************************************)
(* C7.  When an action handler is registered under name N, handleAction    *)
(* with action.action.name = N invokes exactly one handler, once, with     *)
(* (action.input, action, headers), and the outcome of handleAction is     *)
(* that handler's result, unmodified.                                      *)
(***************************************************************************)
C7_ActionInvokesItsHandler ==
  \A c \in CallIds :
    (IsActionCall(c) /\ RegisteredFor(ActionName(c)) # {}) =>
      /\ Len(calls[c].tasks) = 1
      /\ calls[c].tasks[1].handler \in RegisteredFor(ActionName(c))
      /\ calls[c].tasks[1].args =
           << Get(calls[c].args[1], "input"), calls[c].args[1], calls[c].args[2] >>
      /\ calls[c].status \in {"pending", "fulfilled", "rejected"}
      /\ calls[c].status = "pending" <=> calls[c].tasks[1].state = "running"
      /\ calls[c].status = "fulfilled" =>
           calls[c].outcome = ResultOf(calls[c].tasks[1].handler)
      /\ calls[c].status = "rejected" =>
           calls[c].outcome = ErrorOf(calls[c].tasks[1].handler)

\* An action call has returned the result of the handler of its name.
C7_Witness ==
  \E c \in CallIds :
    /\ IsActionCall(c)
    /\ Len(actionHandlerMap) = 2
    /\ Len(calls[c].tasks) = 1
    /\ calls[c].status = "fulfilled"
    /\ calls[c].outcome = ResultOf(calls[c].tasks[1].handler)

(***************************************************************************)
(* C8.  When no action handler is registered under exactly                 *)
(* action.action.name, handleAction fails with the bad-request error and   *)
(* invokes no handler: none of another action name, and no event handler.  *)
(***************************************************************************)
C8_ActionNotFound ==
  \A c \in CallIds :
    (IsActionCall(c) /\ RegisteredFor(ActionName(c)) = {}) =>
      /\ Failed(c)
      /\ calls[c].outcome.name = "BadRequestException"
      /\ calls[c].outcome.message =
           "Handler not found for action: " \o ActionName(c).v
      /\ Invoked(c) = << >>

\* An action named "act", a prefix of a registered name, has been refused
\* while handlers of other names and an event handler are registered.
C8_Witness ==
  \E c \in CallIds :
    /\ IsActionCall(c)
    /\ ActionName(c) = Str("act")
    /\ Len(actionHandlerMap) = 1
    /\ Len(eventHandlers) = 1
    /\ Failed(c)
    /\ Invoked(c) = << >>

(***************************************************************************)
(* C9.  If a handler matched by a handleEvent call raises, the dispatch    *)
(* fails with that handler's error, unmodified, and every sibling the      *)
(* dispatch matched has been launched, is never cancelled, and runs to     *)
(* completion: a sibling that does not raise ends with its result.         *)
(***************************************************************************)
C9_SiblingsRunToCompletion ==
  /\ [](\A c \in CallIds :
          (IsEventCall(c) /\ Truthy(calls[c].keys)) =>
            FailsWithRaisedError(c) /\ AllLaunched(c))
  /\ [][\A c \in CallIds : IsEventCall(c) => NotCancelled(c)]_vars
  /\ \A c \in CallIds :
       (IsEventCall(c) /\ Failed(c)) ~> (\A i \in DOMAIN calls[c].tasks : Settled(c, i))

\* One of two fan-out handlers has raised, the dispatch has failed with its
\* error, and the sibling has returned after that.
C9_Witness ==
  \E c \in CallIds :
    /\ IsEventCall(c)
    /\ Len(calls[c].tasks) = 2
    /\ calls[c].status = "rejected"
    /\ \E i, j \in DOMAIN calls[c].tasks :
         /\ Raised(c, i) /\ calls[c].tasks[i].order = 1
         /\ Returned(c, j) /\ calls[c].tasks[j].order = 2
         /\ calls[c].outcome = ErrorOf(calls[c].tasks[i].handler)

(***************************************************************************)
(* C10 as stated: the caller of handleEvent sees the dispatch fail only    *)
(* when no handler of that dispatch is still running.                      *)
(***************************************************************************)
C10_FailureOnlyAfterAllSettled ==
  \A c \in CallIds :
    (IsEventCall(c) /\ calls[c].status = "rejected") =>
      \A i \in DOMAIN calls[c].tasks : ~Running(c, i)

(***************************************************************************)
(* C10 as amended: the failure is surfaced as soon as the first matched    *)
(* handler raises, whether or not its siblings have settled: the dispatch  *)
(* stands rejected, with the error of the handler that raised first, in    *)
(* every state in which a handler has raised, also while a sibling is      *)
(* still running.  Only success waits for every handler: the dispatch      *)
(* stands fulfilled exactly when all its handlers have returned.           *)
(***************************************************************************)
C10_FailureOnFirstRaise ==
  \A c \in CallIds :
    (IsEventCall(c) /\ Len(calls[c].tasks) > 0) =>
      /\ calls[c].status = "rejected" <=> \E i \in DOMAIN calls[c].tasks : Raised(c, i)
      /\ calls[c].status = "rejected" =>
           \E i \in DOMAIN calls[c].tasks :
             FirstRaised(c, i) /\ calls[c].outcome = calls[c].tasks[i].settled
      /\ calls[c].status = "fulfilled" <=> AllSucceeded(c)

\* The caller sees the dispatch rejected while a sibling handler of the
\* same dispatch is still running.
C10_Witness ==
  \E c \in CallIds :
    /\ IsEventCall(c)
    /\ calls[c].status = "rejected"
    /\ \E i, j \in DOMAIN calls[c].tasks : Raised(c, i) /\ Running(c, j)

\* A binding with both triggerName and table set.
BothSet(config) == Truthy(config.triggerName) /\ config.table.t = "object"

\* The trigger name of a table event is that of the binding.
TriggerMatches(evt, config) ==
  Get(Get(evt, "trigger"), "name") = config.triggerName

\* The table of a table event is that of the binding, an absent schema of
\* the binding taken as "public".
TableMatches(evt, config) ==
  /\ Get(Get(evt, "table"), "schema") = BindingSchema(config)
  /\ Get(Get(evt, "table"), "name") = Get(config.table, "name")

(***************************************************************************)
(* C11.  A binding with both table and triggerName set is invoked by a     *)
(* table event that matches either of its two keys alone: the same         *)
(* trigger.name on a different table, or the same table under a different  *)
(* trigger.name.                                                           *)
(***************************************************************************)
C11_EitherKeyInvokes ==
  \A c \in CallIds :
    (IsEventCall(c) /\ isHasuraEvent(Evt(c))) =>
      \A i \in DOMAIN eventHandlerMeta :
        (/\ BothSet(eventHandlerMeta[i].meta)
         /\ \/ TriggerMatches(Evt(c), eventHandlerMeta[i].meta)
            \/ TableMatches(Evt(c), eventHandlerMeta[i].meta))
        => Invocations(c, EventHandlerRef(i)) >= 1

(***************************************************************************)
(* C12.  A binding with both table and triggerName set is invoked twice    *)
(* in one dispatch by a table event that matches both of its keys, the     *)
(* trigger.name and the table.                                             *)
(***************************************************************************)
C12_BothKeysInvokeTwice ==
  \A c \in CallIds :
    (IsEventCall(c) /\ isHasuraEvent(Evt(c))) =>
      \A i \in DOMAIN eventHandlerMeta :
        (/\ BothSet(eventHandlerMeta[i].meta)
         /\ TriggerMatches(Evt(c), eventHandlerMeta[i].meta)
         /\ TableMatches(Evt(c), eventHandlerMeta[i].meta))
        => Invocations(c, EventHandlerRef(i)) = 2

\* A binding that names neither a table nor a trigger.
NeitherSet(config) == config.table = Undefined /\ config.triggerName = Undefined

SomeBindingUnset ==
  \E i \in DOMAIN eventHandlerMeta : NeitherSet(eventHandlerMeta[i].meta)

(***************************************************************************)
(* C13.  If a discovered event binding has neither table nor triggerName,  *)
(* onModuleInit never completes: handleEvent is never installed on the     *)
(* event service, handleAction is never installed on the action service,   *)
(* no handler table is built and no handler is ever invoked, whatever      *)
(* valid bindings were discovered before or after the invalid one.         *)
(***************************************************************************)
C13_InvalidBindingHaltsInit ==
  SomeBindingUnset =>
    /\ phase \in {"constructed", "failed"}
    /\ ~handleEventSet
    /\ ~handleActionSet
    /\ eventHandlers = << >>
    /\ actionHandlerMap = << >>
    /\ \A c \in CallIds : calls[c] = IdleCall

\* onModuleInit has failed on an invalid binding discovered after a valid
\* one, and nothing is installed.
C13_Witness ==
  /\ phase = "failed"
  /\ Len(eventHandlerMeta) = 2
  /\ TriggerOnly(eventHandlerMeta[1].meta)
  /\ NeitherSet(eventHandlerMeta[2].meta)
  /\ ~handleEventSet /\ ~handleActionSet

(***************************************************************************)
(* C14.  Once onModuleInit has completed, no step of any handleEvent or    *)
(* handleAction call (classification, launch, a handler returning or       *)
(* raising, the failure of a call, in any interleaving of the calls in     *)
(* flight) changes the event handler list or the action map: entries,      *)
(* keys and order stay as built.                                           *)
(***************************************************************************)
C14_TablesFrozenAfterInit ==
  [][phase = "ready" =>
       /\ eventHandlers' = eventHandlers
       /\ actionHandlerMap' = actionHandlerMap
       /\ handleEventSet' /\ handleActionSet']_vars

\* Two calls are in flight against a handler list of two entries and an
\* action map of one: an event dispatch that has failed on a raising
\* handler while its sibling runs, and an action call that has succeeded.
C14_Witness ==
  /\ phase = "ready"
  /\ Len(eventHandlers) = 2
  /\ Len(actionHandlerMap) = 1
  /\ \E c, d \in CallIds :
       /\ IsEventCall(c) /\ calls[c].status = "rejected"
       /\ \E i \in DOMAIN calls[c].tasks : Running(c, i)
       /\ IsActionCall(d) /\ calls[d].status = "fulfilled"

\* Call c is suspended: its promise is pending on a handler still running.
Suspended(c) ==
  calls[c].status = "pending" /\ \E i \in DOMAIN calls[c].tasks : Running(c, i)

\* How call c stands, as its own handlers alone determine it.
StatusByOwnHandlers(c) ==
  IF \E i \in DOMAIN calls[c].tasks : Raised(c, i) THEN "rejected"
  ELSE IF AllSucceeded(c) THEN "fulfilled"
  ELSE "pending"

\* A step changes the call in one slot at most.
OneCallPerStep ==
  \A c, d \in CallIds : (c # d /\ calls'[c] # calls[c]) => calls'[d] = calls[d]

(***************************************************************************)
(* C15.  A dispatch suspended on a slow handler blocks no other call.      *)
(* Whatever the calls in the other slots are doing, a new handleEvent or   *)
(* handleAction call can be made in a free slot, and every handler that    *)
(* has been launched can return; a call that launched handlers stands      *)
(* fulfilled, rejected or pending as its own handlers alone determine;     *)
(* and a step of one call leaves every other call as it was.               *)
(***************************************************************************)
C15_DispatchesIndependent ==
  /\ [](phase = "ready" =>
          \A c \in CallIds :
            /\ calls[c].status = "idle" =>
                 /\ ENABLED HandleEvent(c, ConcurrentEventPayloads)
                 /\ ENABLED HandleAction(c, ConcurrentActionPayloads)
            /\ \A i \in DOMAIN calls[c].tasks :
                 Running(c, i) => ENABLED HandlerReturns(c, i)
            /\ Len(calls[c].tasks) > 0 => calls[c].status = StatusByOwnHandlers(c))
  /\ [][OneCallPerStep]_vars

\* While one event dispatch is suspended on a handler that has not
\* completed, another event dispatch has launched its own two handlers and
\* has completed with their results.
C15_Witness ==
  \E c, d \in CallIds :
    /\ c # d
    /\ IsEventCall(c) /\ Suspended(c)
    /\ IsEventCall(d) /\ Len(calls[d].tasks) = 2
    /\ calls[d].status = "fulfilled"
    /\ calls[d].outcome = Arr([i \in 1..2 |-> ResultOf(calls[d].tasks[i].handler)])

\* The routing key the handler list holds for discovered method i.
KeyOfMethod(i) ==
  LET k == CHOOSE n \in DOMAIN eventHandlers :
             eventHandlers[n].handler = EventHandlerRef(i)
  IN eventHandlers[k].key

\* The discovered methods whose routing key is a candidate key of call c.
MatchedMethods(c) ==
  { i \in DOMAIN eventHandlerMeta : Includes(calls[c].keys.a, KeyOfMethod(i)) }

\* The place in the discovery result at which the class of method i first
\* appears.
FirstOfClass(i) ==
  CHOOSE k \in DOMAIN eventHandlerMeta :
    /\ eventHandlerMeta[k].parentClass = eventHandlerMeta[i].parentClass
    /\ \A m \in DOMAIN eventHandlerMeta :
         eventHandlerMeta[m].parentClass = eventHandlerMeta[i].parentClass => k <= m

\* Method i comes before method j when classes are taken in order of first
\* appearance and the methods of a class in discovery order.
ClassThenDiscoveryOrder(i, j) ==
  \/ FirstOfClass(i) < FirstOfClass(j)
  \/ FirstOfClass(i) = FirstOfClass(j) /\ i < j

\* The results of a dispatch whose handlers all succeeded follow the order
\* in which the handlers were invoked.
ResultsFollowInvoked(c) ==
  (Len(calls[c].tasks) > 0 /\ AllSucceeded(c)) =>
    calls[c].outcome =
      Arr([p \in DOMAIN calls[c].tasks |-> ResultOf(calls[c].tasks[p].handler)])

(***************************************************************************)
(* C16 as stated: the handlers an event dispatch invokes, and the results  *)
(* it aggregates, are in the order in which the discovery returned the     *)
(* matched methods, for every discovery sequence.                          *)
(***************************************************************************)
C16_FanOutInDiscoveryOrder ==
  \A c \in CallIds :
    (IsEventCall(c) /\ Truthy(calls[c].keys)) =>
      LET M == MatchedMethods(c) IN
      /\ Invoked(c) = [p \in 1..Cardinality(M) |-> EventHandlerRef(NthOf(M, p))]
      /\ ResultsFollowInvoked(c)

(***************************************************************************)
(* C16 as amended: the handlers an event dispatch invokes are the matched  *)
(* methods, each once, ordered by declaring class first (classes in order  *)
(* of first appearance in the discovery result) and by discovery order     *)
(* within a class; the aggregated results follow the same order.           *)
(***************************************************************************)
C16_FanOutInClassGroupedOrder ==
  \A c \in CallIds :
    (IsEventCall(c) /\ Truthy(calls[c].keys)) =>
      /\ Len(calls[c].tasks) = Cardinality(MatchedMethods(c))
      /\ \A i \in MatchedMethods(c) : Invocations(c, EventHandlerRef(i)) = 1
      /\ \A p, q \in DOMAIN calls[c].tasks :
           p < q => ClassThenDiscoveryOrder(calls[c].tasks[p].handler.idx,
                                            calls[c].tasks[q].handler.idx)
      /\ ResultsFollowInvoked(c)

\* Methods of class A, class B and class A, discovered in that order on
\* one key, have been invoked as first, third, second, and the dispatch's
\* results are in that order.
C16_Witness ==
  \E c \in CallIds :
    /\ IsEventCall(c)
    /\ Len(eventHandlerMeta) = 3
    /\ eventHandlerMeta[1].parentClass = "A"
    /\ eventHandlerMeta[2].parentClass = "B"
    /\ eventHandlerMeta[3].parentClass = "A"
    /\ Invoked(c) = << EventHandlerRef(1), EventHandlerRef(3), EventHandlerRef(2) >>
    /\ calls[c].status = "fulfilled"
    /\ calls[c].outcome = Arr(<< ResultOf(EventHandlerRef(1)), ResultOf(EventHandlerRef(3)),
                                 ResultOf(EventHandlerRef(2)) >>)

\* The discovered action handlers of a name, by place in the discovery.
MethodsNamed(name) ==
  { i \in DOMAIN actionHandlerNames : Str(actionHandlerNames[i].meta) = name }

\* The place in the action discovery at which the class of method i first
\* appears.
ActionFirstOfClass(i) ==
  CHOOSE k \in DOMAIN actionHandlerNames :
    /\ actionHandlerNames[k].parentClass = actionHandlerNames[i].parentClass
    /\ \A m \in DOMAIN actionHandlerNames :
         actionHandlerNames[m].parentClass = actionHandlerNames[i].parentClass => k <= m

\* Action handler i is written into the action table before action handler
\* j: classes in order of first appearance, a class's methods in discovery
\* order.
WrittenBefore(i, j) ==
  \/ ActionFirstOfClass(i) < ActionFirstOfClass(j)
  \/ ActionFirstOfClass(i) = ActionFirstOfClass(j) /\ i < j

\* The handler of a name that is written last.
LastWritten(name) ==
  CHOOSE i \in MethodsNamed(name) :
    \A j \in MethodsNamed(name) \ {i} : WrittenBefore(j, i)

DuplicateActionNames ==
  \E i, j \in DOMAIN actionHandlerNames :
    i # j /\ actionHandlerNames[i].meta = actionHandlerNames[j].meta

(***************************************************************************)
(* C17.  When two or more action handlers are discovered under one name,   *)
(* onModuleInit does not fail on that account, and every handleAction      *)
(* call for the name invokes exactly one handler, the one written last     *)
(* into the action table; a handler written earlier under the name is      *)
(* never invoked.                                                          *)
(***************************************************************************)
C17_LastWrittenActionHandlerWins ==
  /\ (DuplicateActionNames /\ ~SomeBindingUnset) =>
       /\ phase # "failed"
       /\ phase = "eventsConfigured" => ENABLED ConfigureActionHandlers
  /\ \A c \in CallIds :
       (IsActionCall(c) /\ Cardinality(MethodsNamed(ActionName(c))) >= 2) =>
         /\ Invoked(c) = << ActionHandlerRef(LastWritten(ActionName(c))) >>
         /\ \A i \in MethodsNamed(ActionName(c)) \ {LastWritten(ActionName(c))} :
              Invocations(c, ActionHandlerRef(i)) = 0

\* Two handlers were discovered under one action name; a call for the name
\* has invoked the second and returned its result.
C17_Witness ==
  \E c \in CallIds :
    /\ IsActionCall(c)
    /\ Len(actionHandlerNames) = 2
    /\ actionHandlerNames[1].meta = actionHandlerNames[2].meta
    /\ ActionName(c) = Str(actionHandlerNames[1].meta)
    /\ Invoked(c) = << ActionHandlerRef(2) >>
    /\ calls[c].status = "fulfilled"
    /\ calls[c].outcome = ResultOf(ActionHandlerRef(2))

\* "{table.schema}-{table.name}" of a payload, as a template string gives it.
TableKeyOf(evt) ==
  Str(TemplateStr(Get(Get(evt, "table"), "schema")) \o "-"
      \o TemplateStr(Get(Get(evt, "table"), "name")))

TriggerNameOf(evt) == Get(Get(evt, "trigger"), "name")

(***************************************************************************)
(* C18.  A payload with both the table-event shape and the scheduled-      *)
(* event shape is dispatched as a table event: its candidate keys are      *)
(* [trigger.name, "{table.schema}-{table.name}"], its top-level name is    *)
(* not among them, and a binding whose routing key equals only that name   *)
(* is not invoked.                                                         *)
(***************************************************************************)
C18_TableShapeTakesPriority ==
  \A c \in CallIds :
    (/\ IsEventCall(c)
     /\ isHasuraEvent(Evt(c))
     /\ isHasuraScheduledEventPayload(Evt(c))) =>
      /\ calls[c].keys = Arr(<< TriggerNameOf(Evt(c)), TableKeyOf(Evt(c)) >>)
      /\ Get(Evt(c), "name") \notin { TriggerNameOf(Evt(c)), TableKeyOf(Evt(c)) } =>
           /\ ~Includes(calls[c].keys.a, Get(Evt(c), "name"))
           /\ \A k \in DOMAIN eventHandlers :
                eventHandlers[k].key = Get(Evt(c), "name") =>
                  Invocations(c, eventHandlers[k].handler) = 0

\* A payload of both shapes, whose name t1 is the key of a registered
\* binding, has been dispatched by trigger t2 and table public.b only and
\* has found no handler.
C18_Witness ==
  \E c \in CallIds :
    /\ IsEventCall(c)
    /\ isHasuraEvent(Evt(c)) /\ isHasuraScheduledEventPayload(Evt(c))
    /\ \E k \in DOMAIN eventHandlers : eventHandlers[k].key = Get(Evt(c), "name")
    /\ Failed(c)
    /\ calls[c].outcome.message = "Handler not found for t2,public-b"
    /\ Invoked(c) = << >>

\* A table event whose table has a name and no schema.
TableWithoutSchema(evt) ==
  /\ isHasuraEvent(evt)
  /\ Get(evt, "table").t = "object"
  /\ Get(Get(evt, "table"), "schema") = Undefined
  /\ Get(Get(evt, "table"), "name").t = "string"

\* A table-only binding that names no schema.
TableOnlyWithoutSchema(config) ==
  TableOnly(config) /\ Get(config.table, "schema") = Undefined

(***************************************************************************)
(* C19.  A table event whose table has a name and no schema gets the       *)
(* table candidate key built from the absent schema, not "public-{name}";  *)
(* it does not invoke a table-only binding registered without a schema     *)
(* for the same table name; and when no binding matches, the dispatch      *)
(* fails with handler-not-found.                                           *)
(***************************************************************************)
C19_SchemaDefaultedAtRegistrationOnly ==
  \A c \in CallIds :
    (IsEventCall(c) /\ TableWithoutSchema(Evt(c))) =>
      LET name == Get(Get(Evt(c), "table"), "name") IN
      /\ calls[c].keys.a[2] = Str("undefined-" \o name.v)
      /\ calls[c].keys.a[2] # Str("public-" \o name.v)
      /\ \A i \in DOMAIN eventHandlerMeta :
           (/\ TableOnlyWithoutSchema(eventHandlerMeta[i].meta)
            /\ Get(eventHandlerMeta[i].meta.table, "name") = name)
           => Invocations(c, EventHandlerRef(i)) = 0
      /\ MatchedIndices(c) = {} =>
           /\ Failed(c)
           /\ calls[c].outcome.name = "BadRequestException"
           /\ Invoked(c) = << >>

(***************************************************************************)
(* C20.  Trigger keys and table keys do not cross-match: a table event     *)
(* invokes a trigger-only binding only if its trigger.name is the          *)
(* binding's triggerName, and a table-only binding only if its table       *)
(* schema and name are the binding's (an absent schema of the binding      *)
(* taken as "public"), whatever the trigger names, schemas and names are.  *)
(***************************************************************************)
C20_NoCrossMatch ==
  \A c \in CallIds :
    (IsEventCall(c) /\ isHasuraEvent(Evt(c))) =>
      \A i \in DOMAIN eventHandlerMeta :
        Invocations(c, EventHandlerRef(i)) >= 1 =>
          /\ TriggerOnly(eventHandlerMeta[i].meta) =>
               TriggerMatches(Evt(c), eventHandlerMeta[i].meta)
          /\ TableOnly(eventHandlerMeta[i].meta) =>
               TableMatches(Evt(c), eventHandlerMeta[i].meta)

====
